---- MODULE Spec2Model ----
(***************************************************************************)
(* Model of src/python/mesc/overrides.py: the environment-variable         *)
(* override pass of MESC.  Python values are encoded as follows:           *)
(*   str    a sequence of one-character strings  ("a=1" is <<"a","=","1">>)*)
(*   int    <<"int">> \o decimal digits without leading zeros             *)
(*   None   <<"None">>                                                     *)
(*   dict   a function from keys to values (the empty dict is <<>>)        *)
(* A call either returns a value or raises; both are outcome records.      *)
(***************************************************************************)
EXTENDS Integers, Sequences, FiniteSets, TLC

VARIABLES env, objs, arg, config, pc, op, result
vars == <<env, objs, arg, config, pc, op, result>>

\* ---------------------------------------------------------------- bounds
MaxTokens == 2
MaxSet == 2

\* ------------------------------------------------------- Python encodings
None == <<"None">>
NoRef == 0
EmptyDict == <<>>

PyInt(digits) == <<"int">> \o digits

Return(v) == [kind |-> "return", val |-> v, exc |-> "-"]
Raise(e) == [kind |-> "raise", val |-> None, exc |-> e]

Digits == {"0", "1", "2", "3", "4", "5", "6", "7", "8", "9"}
Letters == {"a", "b", "c", "d", "e", "f", "g", "h", "i", "j", "k", "l", "m",
            "n", "o", "p", "q", "r", "s", "t", "u", "v", "w", "x", "y", "z"}
NameChars == Letters \cup {"_", "-"}
WordChars == Letters \cup Digits \cup {"_"}

\* attributes the interpreter finds on a value of each type
AttrsOf == [str |-> {"split", "startswith", "isdecimal"},
            dict |-> {"update", "get", "items", "setdefault"},
            NoneType |-> {},
            function |-> {}]
HasAttr(type, name) == name \in AttrsOf[type]
TypeOfStr(v) == IF v = None THEN "NoneType" ELSE "str"

\* names bound in the module's global scope
ModuleNames == {"copy", "json", "os", "re", "directory", "exceptions",
                "apply_env_overrides", "env_default_endpoint",
                "_chain_id_to_endpoint_name", "env_network_defaults",
                "env_network_names", "env_endpoints",
                "_collect_ad_hoc_endpoints", "env_profiles",
                "env_global_metadata", "env_endpoint_metadata"}
Bound(name) == name \in ModuleNames

\* TRUE when binding a call's arguments to the parameters raises TypeError
BindError(params, nargs, kwnames) ==
    \/ nargs > Len(params)
    \/ \E k \in kwnames : \A i \in 1..Len(params) : params[i] # k
    \/ \E i \in (nargs + 1)..Len(params) : params[i] \notin kwnames

\* ---------------------------------------------------------- str methods
FirstIndex(s, c) ==
    IF \E i \in 1..Len(s) : s[i] = c
    THEN CHOOSE i \in 1..Len(s) : s[i] = c /\ \A j \in 1..(i - 1) : s[j] # c
    ELSE 0

RECURSIVE Split(_, _)
\* s.split(c)
Split(s, c) ==
    LET i == FirstIndex(s, c)
    IN IF i = 0 THEN <<s>>
       ELSE <<SubSeq(s, 1, i - 1)>> \o Split(SubSeq(s, i + 1, Len(s)), c)

\* s.split(c, 1)
Split1(s, c) ==
    LET i == FirstIndex(s, c)
    IN IF i = 0 THEN <<s>>
       ELSE <<SubSeq(s, 1, i - 1), SubSeq(s, i + 1, Len(s))>>

StartsWith(s, c) == Len(s) >= 1 /\ s[1] = c

RECURSIVE StripZeros(_)
StripZeros(d) ==
    IF Len(d) > 1 /\ d[1] = "0" THEN StripZeros(Tail(d)) ELSE d

\* int(s): a decimal literal gives the integer, anything else ValueError
int(s) ==
    IF Len(s) >= 1 /\ \A i \in 1..Len(s) : s[i] \in Digits
    THEN Return(PyInt(StripZeros(s)))
    ELSE Raise("ValueError")

\* length of the longest prefix of s made of characters of cls
RECURSIVE Run(_, _)
Run(s, cls) ==
    IF Len(s) >= 1 /\ s[1] \in cls THEN 1 + Run(Tail(s), cls) ELSE 0

\* re.match(r"^(?P<name>[A-Za-z_-]+)(:(?P<chain_id>\w+))?=(?P<url>.*)", s):
\* the groups, or None when s does not match
MatchEndpoint(s) ==
    LET n == Run(s, NameChars)
        r == SubSeq(s, n + 1, Len(s))
        w == IF StartsWith(r, ":") THEN Run(Tail(r), WordChars) ELSE 0
        q == IF w > 0 THEN SubSeq(r, w + 2, Len(r)) ELSE r
    IN IF n >= 1 /\ StartsWith(q, "=")
       THEN [name |-> SubSeq(s, 1, n),
             chain_id |-> IF w > 0 THEN SubSeq(r, 2, w + 1) ELSE None,
             url |-> Tail(q)]
       ELSE None

\* dict.update: entries of new overwrite same-named entries of old
Update(old, new) ==
    [k \in DOMAIN old \cup DOMAIN new |->
        IF k \in DOMAIN new THEN new[k] ELSE old[k]]

\* dict.get(k)
Get(d, k) == IF k \in DOMAIN d THEN d[k] ELSE None

\* ------------------------------------------------------------- json.loads
\* the JSON texts that occur in the modelled environments
jEmpty == <<"{", "}">>
jNames == <<"{", "\"", "n", "\"", ":", "1", "}">>
jMeta == <<"{", "\"", "k", "\"", ":", "\"", "v", "\"", "}">>
jEndpointMeta == <<"{", "\"", "m", "\"", ":">> \o jMeta \o <<"}">>
jBad == <<"{">>

\* json.loads(s) on those texts; every other text of the model is malformed
json_loads(s) ==
    CASE s = jEmpty -> Return(EmptyDict)
      [] s = jNames -> Return((<<"n">> :> PyInt(<<"1">>)))
      [] s = jMeta -> Return((<<"k">> :> <<"v">>))
      [] s = jEndpointMeta -> Return((<<"m">> :> (<<"k">> :> <<"v">>)))
      [] OTHER -> Raise("JSONDecodeError")

\* ------------------------------------------------- external collaborators
\* directory.network_name_to_chain_id(alias): chain id of a well-known
\* network name, None when the name is not in the directory
network_name_to_chain_id(alias) ==
    IF alias = <<"e">> THEN PyInt(<<"1">>) ELSE None

\* the object exceptions.InvalidOverride(...) builds
InvalidOverrideInstance == <<"exceptions.InvalidOverride">>

\* ------------------------------------------------------------ overrides.py
EnvVars == <<"MESC_ENDPOINTS", "MESC_NETWORK_NAMES", "MESC_NETWORK_DEFAULTS",
             "MESC_PROFILES", "MESC_DEFAULT_ENDPOINT", "MESC_GLOBAL_METADATA",
             "MESC_ENDPOINT_METADATA">>

\* os.environ.get(name)
environ_get(e, name) == e[name]

\* the literal of lines 16-24
DefaultConfig ==
    [mesc_version |-> <<"1", ".", "0">>,
     default_endpoint |-> None,
     network_defaults |-> EmptyDict,
     network_names |-> EmptyDict,
     endpoints |-> EmptyDict,
     profiles |-> EmptyDict,
     global_metadata |-> EmptyDict]

\* the copy left out: the caller's own object is handed on
deepcopy_alias(heap, ref) ==
    [heap |-> heap, ref |-> ref]

\* copy.deepcopy(heap[ref]): a new object holding an equal value
deepcopy(heap, ref) ==
    [heap |-> Append(heap, heap[ref]), ref |-> Len(heap) + 1]

\* a dict display: a new object
NewObject(heap, value) ==
    [heap |-> Append(heap, value), ref |-> Len(heap) + 1]

_chain_id_to_endpoint_name(chain_id, cfg) ==
    LET endpoint == Get(cfg.network_defaults, chain_id)
    IN IF endpoint = None
       THEN Raise("MissingEndpoint")
       ELSE Return(endpoint)

\* str.isdecimal()
isdecimal(s) == Len(s) >= 1 /\ \A i \in 1..Len(s) : s[i] \in Digits

env_default_endpoint(args, e) ==
    IF BindError(<<"config">>, Len(args), {}) THEN Raise("TypeError")
    ELSE
    LET cfg == args[1]
        default_endpoint == environ_get(e, "MESC_DEFAULT_ENDPOINT")
    IN IF default_endpoint \in DOMAIN cfg.endpoints
       THEN Return(default_endpoint)
       ELSE IF ~HasAttr(TypeOfStr(default_endpoint), "is_decimal")
       THEN Raise("AttributeError")
       ELSE IF isdecimal(default_endpoint)
       THEN _chain_id_to_endpoint_name(int(default_endpoint).val, cfg)
       ELSE IF default_endpoint \in DOMAIN cfg.network_names
       THEN _chain_id_to_endpoint_name(cfg.network_names[default_endpoint],
                                       cfg)
       ELSE IF network_name_to_chain_id(default_endpoint) # None
       THEN _chain_id_to_endpoint_name(
                network_name_to_chain_id(default_endpoint), cfg)
       ELSE Return(InvalidOverrideInstance)

\* line 73: the first item is unpacked into (network, endpoint), then the
\* key expression reads `name`, which is bound nowhere
env_network_defaults(args, kwnames, e) ==
    IF BindError(<<"replace_ad_hoc">>, Len(args), kwnames)
    THEN Raise("TypeError")
    ELSE
    LET network_defaults == environ_get(e, "MESC_NETWORK_DEFAULTS")
    IN IF ~HasAttr(TypeOfStr(network_defaults), "split")
       THEN Raise("AttributeError")
       ELSE
       LET tokens == Split(network_defaults, " ")
           items == [i \in 1..Len(tokens) |-> Split1(tokens[i], "=")]
       IN IF Len(items[1]) # 2 THEN Raise("ValueError")
          ELSE Raise("NameError")

\* the dict comprehension of line 82 over pairs[i..]
RECURSIVE NetworkNamesFrom(_, _, _)
NetworkNamesFrom(pairs, i, acc) ==
    IF i > Len(pairs) THEN Return(acc)
    ELSE IF Len(pairs[i]) # 2 THEN Raise("ValueError")
    ELSE LET value == int(pairs[i][2])
         IN IF value.kind = "raise" THEN value
            ELSE NetworkNamesFrom(pairs, i + 1,
                                  Update(acc, (pairs[i][1] :> value.val)))

env_network_names(args, e) ==
    IF BindError(<<>>, Len(args), {}) THEN Raise("TypeError")
    ELSE
    LET network_names == environ_get(e, "MESC_NETWORK_NAMES")
    IN IF ~HasAttr(TypeOfStr(network_names), "startswith")
       THEN Raise("AttributeError")
       ELSE IF StartsWith(network_names, "{")
       THEN json_loads(network_names)
       ELSE
       LET tokens == Split(network_names, " ")
           pairs == [i \in 1..Len(tokens) |-> Split(tokens[i], "=")]
       IN NetworkNamesFrom(pairs, 1, EmptyDict)

\* line 91 calls split on the dict `endpoints`; line 92 reads `string`,
\* which is bound nowhere
env_endpoints(args, e) ==
    IF BindError(<<>>, Len(args), {}) THEN Raise("TypeError")
    ELSE IF ~HasAttr("dict", "split") THEN Raise("AttributeError")
    ELSE Raise("NameError")

\* line 138 calls split on the dict `profiles`
env_profiles(args, kwnames, e) ==
    IF BindError(<<>>, Len(args), kwnames) THEN Raise("TypeError")
    ELSE
    LET raw_profiles == environ_get(e, "MESC_PROFILES")
    IN IF raw_profiles = None THEN Return(EmptyDict)
       ELSE Raise("AttributeError")

\* lines 126-127 call `_is_url`, bound nowhere, on the first raw endpoint
_collect_ad_hoc_endpoints(args, e) ==
    IF BindError(<<"endpoints">>, Len(args), {}) THEN Raise("TypeError")
    ELSE
    LET network_defaults == env_network_defaults(<<>>, {"replace"}, e)
        profiles == env_profiles(<<>>, {"replace"}, e)
    IN IF network_defaults.kind = "raise" THEN network_defaults
       ELSE IF profiles.kind = "raise" THEN profiles
       ELSE IF ~Bound("_is_url") THEN Raise("NameError")
       ELSE Return(None)

env_global_metadata(args, e) ==
    IF BindError(<<>>, Len(args), {}) THEN Raise("TypeError")
    ELSE
    LET global_metadata == environ_get(e, "MESC_GLOBAL_METADATA")
    IN IF global_metadata # None
       THEN json_loads(global_metadata)
       ELSE Return(EmptyDict)

env_endpoint_metadata(args, e) ==
    IF BindError(<<>>, Len(args), {}) THEN Raise("TypeError")
    ELSE
    LET endpoint_metadata == environ_get(e, "MESC_ENDPOINT_METADATA")
    IN IF endpoint_metadata # None
       THEN json_loads(endpoint_metadata)
       ELSE Return(EmptyDict)

\* lines 12-39.  The result names the heap after the call, the object the
\* local `config` is bound to, and the outcome (a returned reference or the
\* exception that left the function).
apply_env_overrides(heap, a, e) ==
    LET c == IF a # NoRef THEN deepcopy(heap, a)
             ELSE NewObject(heap, DefaultConfig)
        h0 == c.heap
        ref == c.ref
        out(h, o) == [heap |-> h, config |-> ref, out |-> o]
        r26 == env_endpoints(<<h0[ref]>>, e)
        h1 == [h0 EXCEPT ![ref].endpoints = Update(@, r26.val)]
        r27 == env_network_names(<<>>, e)
        h2 == [h1 EXCEPT ![ref].network_names = Update(@, r27.val)]
        r28 == env_network_defaults(<<>>, {}, e)
        h3 == [h2 EXCEPT ![ref].network_defaults = Update(@, r28.val)]
        r29 == env_profiles(<<>>, {}, e)
        h4 == [h3 EXCEPT ![ref].profiles = Update(@, r29.val)]
        r30 == env_default_endpoint(<<>>, e)
        h5 == IF r30.val # None
              THEN [h4 EXCEPT ![ref].default_endpoint = r30.val]
              ELSE h4
        r35 == env_global_metadata(<<>>, e)
        h6 == [h5 EXCEPT ![ref].global_metadata = Update(@, r35.val)]
    IN IF r26.kind = "raise" THEN out(h0, r26)
       ELSE IF r27.kind = "raise" THEN out(h1, r27)
       ELSE IF r28.kind = "raise" THEN out(h2, r28)
       ELSE IF r29.kind = "raise" THEN out(h3, r29)
       ELSE IF r30.kind = "raise" THEN out(h4, r30)
       ELSE IF r35.kind = "raise" THEN out(h5, r35)
       ELSE IF ~HasAttr("function", "items")
       THEN out(h6, Raise("AttributeError"))
       ELSE out(h6, Return(ref))

\* ------------------------------------------------------------- the inputs
tM == <<"m">>
tUrl == <<"h", ":", "/", "/", "x">>
wDefaultEndpoint == <<"d", "e", "f", "a", "u", "l", "t", "_",
                      "e", "n", "d", "p", "o", "i", "n", "t">>
wNetworkDefaults == <<"n", "e", "t", "w", "o", "r", "k", "_",
                      "d", "e", "f", "a", "u", "l", "t", "s">>

EndpointTokens == {<<"a", ":", "5", "=">> \o tUrl, <<"1", "m">>}
NetworkNameTokens == {<<"n", "=", "1">>, <<"n", "=", "x">>}
NetworkDefaultTokens == {<<"1", "=", "m">>, <<"5", "=">> \o tUrl}
ProfileTokens == {<<"d", ".">> \o wNetworkDefaults \o <<".", "1", "=", "m">>,
                  <<"d", ".", "x", "=", "m">>}

\* the space-separated lists of at most n tokens
RECURSIVE Lists(_, _)
Lists(tokens, n) ==
    IF n = 0 THEN {<<>>}
    ELSE LET shorter == Lists(tokens, n - 1)
         IN shorter \cup tokens
            \cup {l \o <<" ">> \o t : l \in shorter \ {<<>>}, t \in tokens}

\* the values each variable takes when it is set
EnvValues ==
    [MESC_ENDPOINTS |-> Lists(EndpointTokens, MaxTokens),
     MESC_NETWORK_NAMES |-> Lists(NetworkNameTokens, MaxTokens)
                            \cup {jEmpty, jNames, jBad},
     MESC_NETWORK_DEFAULTS |-> Lists(NetworkDefaultTokens, MaxTokens),
     MESC_PROFILES |-> Lists(ProfileTokens, MaxTokens),
     MESC_DEFAULT_ENDPOINT |-> {tM, <<"1">>, <<"5">>, <<"n">>, <<"e">>,
                                <<"z", "z">>, tUrl},
     MESC_GLOBAL_METADATA |-> {jEmpty, jMeta, jBad},
     MESC_ENDPOINT_METADATA |-> {jEndpointMeta, jBad}]

\* the environments with at most b of the variables EnvVars[i..] set
RECURSIVE Environments(_, _)
Environments(i, b) ==
    IF i > Len(EnvVars) THEN {<<>>}
    ELSE LET v == EnvVars[i]
         IN {(v :> None) @@ r : r \in Environments(i + 1, b)}
            \cup (IF b = 0 THEN {}
                  ELSE {(v :> x) @@ r :
                           x \in EnvValues[v], r \in Environments(i + 1, b - 1)})

EndpointM ==
    [name |-> tM, url |-> tUrl, chain_id |-> <<"1">>,
     endpoint_metadata |-> EmptyDict]

\* base configurations a loader hands over
BaseEmpty == DefaultConfig
BaseMain ==
    [DefaultConfig EXCEPT !.default_endpoint = tM,
                          !.endpoints = (tM :> EndpointM),
                          !.network_names = (<<"n">> :> PyInt(<<"1">>)),
                          !.network_defaults = (<<"1">> :> tM)]
BaseIntKeys ==
    [BaseMain EXCEPT !.network_defaults = (PyInt(<<"1">>) :> tM)]
BaseConfigs == {BaseEmpty, BaseMain, BaseIntKeys}

ChainIdArgs == {PyInt(<<"1">>), PyInt(<<"5">>)}

\* ------------------------------------------------------- the state machine
NoResult == [kind |-> "none", val |-> None, exc |-> "-"]

Init ==
    /\ env \in Environments(1, MaxSet)
    /\ \/ objs = <<>> /\ arg = NoRef
       \/ \E b \in BaseConfigs : objs = <<b>> /\ arg = 1
    /\ config = NoRef
    /\ pc = "idle"
    /\ op = "-"
    /\ result = NoResult

Done(name, o) ==
    /\ pc' = "done"
    /\ op' = name
    /\ result' = o
    /\ UNCHANGED <<env, arg>>

CallApplyEnvOverrides ==
    /\ pc = "idle"
    /\ LET r == apply_env_overrides(objs, arg, env)
       IN /\ objs' = r.heap
          /\ config' = r.config
          /\ Done("apply_env_overrides", r.out)

CallEnvDefaultEndpoint ==
    /\ pc = "idle"
    /\ arg # NoRef
    /\ Done("env_default_endpoint", env_default_endpoint(<<objs[arg]>>, env))
    /\ UNCHANGED <<objs, config>>

CallChainIdToEndpointName ==
    /\ pc = "idle"
    /\ arg # NoRef
    /\ \E chain_id \in ChainIdArgs :
          Done("_chain_id_to_endpoint_name",
               _chain_id_to_endpoint_name(chain_id, objs[arg]))
    /\ UNCHANGED <<objs, config>>

CallEnvNetworkDefaults ==
    /\ pc = "idle"
    /\ \E replace_ad_hoc \in BOOLEAN :
          Done("env_network_defaults",
               env_network_defaults(<<replace_ad_hoc>>, {}, env))
    /\ UNCHANGED <<objs, config>>

CallEnvNetworkNames ==
    /\ pc = "idle"
    /\ Done("env_network_names", env_network_names(<<>>, env))
    /\ UNCHANGED <<objs, config>>

CallEnvEndpoints ==
    /\ pc = "idle"
    /\ Done("env_endpoints", env_endpoints(<<>>, env))
    /\ UNCHANGED <<objs, config>>

CallCollectAdHocEndpoints ==
    /\ pc = "idle"
    /\ arg # NoRef
    /\ Done("_collect_ad_hoc_endpoints",
            _collect_ad_hoc_endpoints(<<objs[arg].endpoints>>, env))
    /\ UNCHANGED <<objs, config>>

CallEnvProfiles ==
    /\ pc = "idle"
    /\ Done("env_profiles", env_profiles(<<>>, {}, env))
    /\ UNCHANGED <<objs, config>>

CallEnvGlobalMetadata ==
    /\ pc = "idle"
    /\ Done("env_global_metadata", env_global_metadata(<<>>, env))
    /\ UNCHANGED <<objs, config>>

CallEnvEndpointMetadata ==
    /\ pc = "idle"
    /\ Done("env_endpoint_metadata", env_endpoint_metadata(<<>>, env))
    /\ UNCHANGED <<objs, config>>

Next ==
    \/ CallApplyEnvOverrides
    \/ CallEnvDefaultEndpoint
    \/ CallChainIdToEndpointName
    \/ CallEnvNetworkDefaults
    \/ CallEnvNetworkNames
    \/ CallEnvEndpoints
    \/ CallCollectAdHocEndpoints
    \/ CallEnvProfiles
    \/ CallEnvGlobalMetadata
    \/ CallEnvEndpointMetadata

Spec == Init /\ [][Next]_vars

\* ------------------------------------------- what the environment supplies
\* (the grammars of the variables, used to state the properties below)
Called(name) == pc = "done" /\ op = name
Unset(v) == env[v] = None
AllUnset == \A i \in 1..Len(EnvVars) : Unset(EnvVars[i])
OnlySet(vs) == \A i \in 1..Len(EnvVars) : EnvVars[i] \notin vs => Unset(EnvVars[i])
Base == IF arg # NoRef THEN objs[arg] ELSE DefaultConfig

TokensOf(v) == IF Unset(v) THEN <<>> ELSE Split(env[v], " ")
TokenSet(v) == {TokensOf(v)[i] : i \in 1..Len(TokensOf(v))}

IsUrlText(s) ==
    \E i \in 1..(Len(s) - 2) : s[i] = ":" /\ s[i + 1] = "/" /\ s[i + 2] = "/"

\* NAME[:CHAIN_ID]=URL
GoodEndpointToken(t) == MatchEndpoint(t) # None
SuppliedEndpoints ==
    LET last(n) == CHOOSE i \in 1..Len(TokensOf("MESC_ENDPOINTS")) :
                      /\ MatchEndpoint(TokensOf("MESC_ENDPOINTS")[i]).name = n
                      /\ \A j \in (i + 1)..Len(TokensOf("MESC_ENDPOINTS")) :
                            MatchEndpoint(TokensOf("MESC_ENDPOINTS")[j]).name # n
    IN [n \in {MatchEndpoint(t).name : t \in TokenSet("MESC_ENDPOINTS")} |->
           LET g == MatchEndpoint(TokensOf("MESC_ENDPOINTS")[last(n)])
           IN [name |-> g.name, url |-> g.url, chain_id |-> g.chain_id,
               endpoint_metadata |-> EmptyDict]]

\* ALIAS=CHAIN_ID, or a JSON object
GoodNetworkNameToken(t) ==
    Len(Split(t, "=")) = 2 /\ Split(t, "=")[1] # <<>>
    /\ isdecimal(Split(t, "=")[2])
GoodNetworkNames ==
    \/ Unset("MESC_NETWORK_NAMES")
    \/ env["MESC_NETWORK_NAMES"] \in {jEmpty, jNames}
    \/ \A t \in TokenSet("MESC_NETWORK_NAMES") : GoodNetworkNameToken(t)
SuppliedNetworkNameKeys ==
    IF Unset("MESC_NETWORK_NAMES") \/ env["MESC_NETWORK_NAMES"] = jEmpty
    THEN {}
    ELSE IF env["MESC_NETWORK_NAMES"] = jNames THEN {<<"n">>}
    ELSE {Split(t, "=")[1] : t \in TokenSet("MESC_NETWORK_NAMES")}

\* CHAIN_ID=ENDPOINT_OR_URL
GoodNetworkDefaultToken(t) ==
    Len(Split1(t, "=")) = 2 /\ isdecimal(Split1(t, "=")[1])
    /\ Split1(t, "=")[2] # <<>>
SuppliedNetworkDefaultKeys ==
    {Split1(t, "=")[1] : t \in TokenSet("MESC_NETWORK_DEFAULTS")}

\* PROFILE.default_endpoint=V or PROFILE.network_defaults.CHAIN_ID=V
GoodProfileToken(t) ==
    /\ Len(Split(t, "=")) = 2
    /\ LET subkeys == Split(Split(t, "=")[1], ".")
       IN \/ Len(subkeys) = 2 /\ subkeys[2] = wDefaultEndpoint
          \/ Len(subkeys) = 3 /\ subkeys[2] = wNetworkDefaults
SuppliedProfileKeys ==
    {Split(Split(t, "=")[1], ".")[1] : t \in TokenSet("MESC_PROFILES")}

GoodJson(v) == Unset(v) \/ json_loads(env[v]).kind = "return"
SuppliedGlobalMetadata ==
    IF Unset("MESC_GLOBAL_METADATA") THEN EmptyDict
    ELSE json_loads(env["MESC_GLOBAL_METADATA"]).val

\* every variable that is set follows its grammar
WellFormed ==
    /\ \A t \in TokenSet("MESC_ENDPOINTS") : GoodEndpointToken(t)
    /\ GoodNetworkNames
    /\ \A t \in TokenSet("MESC_NETWORK_DEFAULTS") : GoodNetworkDefaultToken(t)
    /\ \A t \in TokenSet("MESC_PROFILES") : GoodProfileToken(t)
    /\ GoodJson("MESC_GLOBAL_METADATA")
    /\ GoodJson("MESC_ENDPOINT_METADATA")

\* the configuration a returned reference denotes
Returned == result.kind = "return"
ResultConfig == objs[result.val]

\* a base entry not named by the environment is kept, a named key is present
Merged(field, supplied) ==
    /\ supplied \cup DOMAIN Base[field] \subseteq DOMAIN ResultConfig[field]
    /\ \A k \in DOMAIN Base[field] \ supplied :
          ResultConfig[field][k] = Base[field][k]

\* the default configured for a chain id given by its decimal digits
DefaultKeys(cfg, digits) ==
    {digits, PyInt(digits)} \cap DOMAIN cfg.network_defaults
DefaultOf(cfg, digits) ==
    cfg.network_defaults[CHOOSE k \in DefaultKeys(cfg, digits) : TRUE]
DigitsOf(chain_id) == Tail(chain_id)

\* the chain id MESC_DEFAULT_ENDPOINT denotes (its digits), None if none
ChainOfDefaultEndpoint(cfg) ==
    LET v == env["MESC_DEFAULT_ENDPOINT"]
    IN IF isdecimal(v) THEN StripZeros(v)
       ELSE IF v \in DOMAIN cfg.network_names
       THEN DigitsOf(cfg.network_names[v])
       ELSE IF network_name_to_chain_id(v) # None
       THEN DigitsOf(network_name_to_chain_id(v))
       ELSE None

\* ------------------------------------------------------------- properties

\* C1: a call of apply_env_overrides never changes the caller's object, and
\* the object the call works on and would return is not the caller's object.
C1_CallerConfigUntouched ==
    [][/\ arg # NoRef => objs'[arg] = objs[arg]
       /\ op' = "apply_env_overrides" =>
             /\ config' # arg
             /\ result'.kind = "return" => result'.val # arg]_vars

C1_Witness ==
    /\ Called("apply_env_overrides")
    /\ arg # NoRef
    /\ config # NoRef
    /\ config # arg
    /\ objs[arg] = BaseMain
    /\ objs[config] = BaseMain

\* C3: a configuration apply_env_overrides returns references only endpoints
\* it holds, and a MESC_DEFAULT_ENDPOINT or MESC_NETWORK_DEFAULTS value that
\* is a URL gets an ad hoc endpoint from _collect_ad_hoc_endpoints.
C3_ReferencesResolve ==
    /\ Called("apply_env_overrides") /\ Returned =>
          LET c == ResultConfig
              values(d) == {d[k] : k \in DOMAIN d}
              refs == {c.default_endpoint}
                      \cup values(c.network_defaults)
                      \cup {c.profiles[p].default_endpoint :
                               p \in DOMAIN c.profiles}
                      \cup UNION {values(c.profiles[p].network_defaults) :
                                     p \in DOMAIN c.profiles}
          IN (refs \ {None}) \subseteq DOMAIN c.endpoints
    /\ Called("_collect_ad_hoc_endpoints") =>
          \A u \in {env["MESC_DEFAULT_ENDPOINT"]}
                   \cup {Split1(t, "=")[Len(Split1(t, "="))] :
                            t \in TokenSet("MESC_NETWORK_DEFAULTS")} :
             IsUrlText(u) /\ u \notin DOMAIN Base.endpoints /\ WellFormed =>
                /\ Returned
                /\ \E n \in DOMAIN result.val : result.val[n].url = u

\* C4: with well-formed variables the five maps of the result are the shallow
\* union of the base maps and the environment's entries, environment winning.
C4_ShallowUnion ==
    Called("apply_env_overrides") /\ WellFormed
    /\ Unset("MESC_DEFAULT_ENDPOINT") /\ Unset("MESC_ENDPOINT_METADATA") =>
       /\ Returned
       /\ Merged("endpoints", DOMAIN SuppliedEndpoints)
       /\ \A n \in DOMAIN SuppliedEndpoints :
             ResultConfig.endpoints[n] = SuppliedEndpoints[n]
       /\ Merged("network_names", SuppliedNetworkNameKeys)
       /\ Merged("network_defaults", SuppliedNetworkDefaultKeys)
       /\ Merged("profiles", SuppliedProfileKeys)
       /\ Merged("global_metadata", DOMAIN SuppliedGlobalMetadata)
       /\ \A k \in DOMAIN SuppliedGlobalMetadata :
             ResultConfig.global_metadata[k] = SuppliedGlobalMetadata[k]

\* C5: with no MESC_* variable set apply_env_overrides returns a
\* configuration equal to the base, the empty configuration for None.
C5_UnsetContributesNothing ==
    Called("apply_env_overrides") /\ AllUnset =>
       /\ Returned
       /\ ResultConfig = Base

\* C6: env_default_endpoint returns an endpoint name verbatim, else the
\* network default of the chain id the value denotes as a decimal literal, a
\* network_names key or a directory alias; MESC_DEFAULT_ENDPOINT=1 with
\* MESC_NETWORK_DEFAULTS="1=m" and an endpoint m gives default_endpoint m.
C6_ResolutionOrder ==
    /\ Called("env_default_endpoint") /\ ~Unset("MESC_DEFAULT_ENDPOINT") =>
          LET v == env["MESC_DEFAULT_ENDPOINT"]
              chain == ChainOfDefaultEndpoint(Base)
          IN IF v \in DOMAIN Base.endpoints
             THEN result = Return(v)
             ELSE chain # None /\ DefaultKeys(Base, chain) # {} =>
                     result = Return(DefaultOf(Base, chain))
    /\ Called("apply_env_overrides")
       /\ OnlySet({"MESC_DEFAULT_ENDPOINT", "MESC_NETWORK_DEFAULTS"})
       /\ env["MESC_DEFAULT_ENDPOINT"] = <<"1">>
       /\ env["MESC_NETWORK_DEFAULTS"] = <<"1", "=", "m">>
       /\ tM \in DOMAIN Base.endpoints =>
          /\ Returned
          /\ ResultConfig.default_endpoint = tM

\* C7: a MESC_DEFAULT_ENDPOINT value that is no endpoint name, no decimal
\* literal, no network_names key and no directory alias makes
\* env_default_endpoint raise InvalidOverride.
C7_InvalidDefaultEndpoint ==
    Called("env_default_endpoint") /\ ~Unset("MESC_DEFAULT_ENDPOINT")
    /\ env["MESC_DEFAULT_ENDPOINT"] \notin DOMAIN Base.endpoints
    /\ ~IsUrlText(env["MESC_DEFAULT_ENDPOINT"])
    /\ ChainOfDefaultEndpoint(Base) = None =>
       result = Raise("InvalidOverride")

\* C8: env_default_endpoint raises MissingEndpoint exactly when the value
\* denotes a chain id for which network_defaults has no entry.
C8_MissingEndpointExactly ==
    Called("env_default_endpoint") /\ ~Unset("MESC_DEFAULT_ENDPOINT")
    /\ env["MESC_DEFAULT_ENDPOINT"] \notin DOMAIN Base.endpoints =>
       (result = Raise("MissingEndpoint")
           <=> /\ ChainOfDefaultEndpoint(Base) # None
               /\ DefaultKeys(Base, ChainOfDefaultEndpoint(Base)) = {})

\* C9: a MESC_NETWORK_DEFAULTS token CHAIN_ID=URL puts into the result an
\* endpoint with that url, no chain_id and empty metadata, and makes
\* network_defaults[CHAIN_ID] that endpoint's name.
C9_AdHocNetworkDefault ==
    Called("apply_env_overrides") /\ WellFormed
    /\ Unset("MESC_DEFAULT_ENDPOINT") /\ Unset("MESC_ENDPOINT_METADATA") =>
       \A t \in TokenSet("MESC_NETWORK_DEFAULTS") :
          LET chain == Split1(t, "=")[1]
              u == Split1(t, "=")[2]
          IN IsUrlText(u) /\ u \notin DOMAIN Base.endpoints
                          /\ u \notin DOMAIN SuppliedEndpoints =>
                /\ Returned
                /\ chain \in DOMAIN ResultConfig.network_defaults
                /\ \E n \in DOMAIN ResultConfig.endpoints :
                      /\ ResultConfig.endpoints[n].url = u
                      /\ ResultConfig.endpoints[n].chain_id = None
                      /\ ResultConfig.endpoints[n].endpoint_metadata = EmptyDict
                      /\ ResultConfig.network_defaults[chain] = n

\* C10: a MESC_ENDPOINTS token outside NAME[:CHAIN_ID]=URL, or a MESC_PROFILES
\* token with another dotted key, makes apply_env_overrides raise
\* InvalidOverride.
C10_MalformedAborts ==
    LET malformed ==
           \/ \E t \in TokenSet("MESC_ENDPOINTS") :
                 t # <<>> /\ ~GoodEndpointToken(t)
           \/ \E t \in TokenSet("MESC_PROFILES") :
                 t # <<>> /\ ~GoodProfileToken(t)
    IN Called("apply_env_overrides") /\ malformed =>
          result = Raise("InvalidOverride")
====
